---- MODULE Spec2Model ----
(***************************************************************************)
(* Model of the board-game crawler (scrapeAll, fetchGameDetails,           *)
(* extractDetailsFromGameHtml and their helpers).                          *)
(*                                                                         *)
(* JavaScript values are tagged records.  A JS number is kept in fixed     *)
(* point: the integer m stands for m / Scale.  A JS string is a sequence   *)
(* of tokens, each a single character ("3", ",", " ") or a whole word      *)
(* ("Best", "Recommended") that the code only ever tests as a unit.        *)
(***************************************************************************)
EXTENDS Integers, Sequences, FiniteSets, TLC

Scale == 10 ^ 3

(* ------------------------------ JS values ------------------------------ *)

Undefined == [t |-> "undefined"]
Null == [t |-> "null"]
NaN == [t |-> "NaN"]
Num(m) == [t |-> "number", m |-> m]
Str(s) == [t |-> "string", s |-> s]
Arr(a) == [t |-> "array", a |-> a]
Obj(f) == [t |-> "object", f |-> f]
\* an Error object
Err(message) == [t |-> "error", message |-> message]
EmptyObj == [t |-> "object", f |-> [none \in {} |-> Undefined]]

\* k whole units as a JS number
N(k) == Num(k * Scale)

\* value === null || value === undefined
Nullish(v) == v.t \in {"undefined", "null"}

\* JS truthiness
Truthy(v) ==
    CASE v.t = "number" -> v.m # 0
      [] v.t = "string" -> v.s # <<>>
      [] v.t \in {"array", "object", "error"} -> TRUE
      [] OTHER -> FALSE

\* a ?? b
Coalesce(a, b) == IF Nullish(a) THEN b ELSE a

\* a || b
OrElse(a, b) == IF Truthy(a) THEN a ELSE b

\* o?.k : the property k of o, undefined when o is no object or lacks k
Get(o, k) == IF o.t = "object" /\ k \in DOMAIN o.f THEN o.f[k] ELSE Undefined

\* Array.isArray(v)
IsArray(v) == v.t = "array"

Min(S) == CHOOSE x \in S : \A y \in S : x <= y
Max(S) == CHOOSE x \in S : \A y \in S : x >= y

(* ------------------------- strings and numbers ------------------------- *)

\* the en-dash character, one token
EnDash == "EN-DASH"

DigitChars == <<"0", "1", "2", "3", "4", "5", "6", "7", "8", "9">>
DigitSet == {DigitChars[ix] : ix \in 1..10}
DigitMap == [c \in DigitSet |-> (CHOOSE ix \in 1..10 : DigitChars[ix] = c) - 1]
IsDigit(c) == c \in DigitSet
DigitVal(c) == DigitMap[c]

\* the value of the digit string s
RECURSIVE DigitsValue(_)
DigitsValue(s) ==
    IF s = <<>> THEN 0
    ELSE DigitsValue(SubSeq(s, 1, Len(s) - 1)) * 10 + DigitVal(s[Len(s)])

\* the fraction digits s (after the point) in units of 1/Scale
RECURSIVE FracValue(_, _)
FracValue(s, unit) ==
    IF s = <<>> \/ unit = 0 THEN 0
    ELSE DigitVal(s[1]) * unit + FracValue(Tail(s), unit \div 10)

\* String.replace(/[\,\s]/g, "")
StripSeparators(s) == SelectSeq(s, LAMBDA c : c \notin {",", " "})

\* Number(s) for a string without whitespace: "" is 0, a decimal literal is
\* its value, anything else NaN
ParseNumber(s) ==
    IF s = <<>> THEN Num(0)
    ELSE
      LET signed == s[1] \in {"-", "+"}
          body == IF signed THEN Tail(s) ELSE s
          dots == {ix \in 1..Len(body) : body[ix] = "."}
          wellFormed == /\ \A ix \in 1..Len(body) : IsDigit(body[ix]) \/ body[ix] = "."
                        /\ Cardinality(dots) <= 1
                        /\ \E ix \in 1..Len(body) : IsDigit(body[ix])
          p == IF dots = {} THEN Len(body) + 1 ELSE CHOOSE ix \in dots : TRUE
          mag == DigitsValue(SubSeq(body, 1, p - 1)) * Scale
                   + FracValue(SubSeq(body, p + 1, Len(body)), Scale \div 10)
      IN IF ~wellFormed THEN NaN
         ELSE IF s[1] = "-" THEN Num(-mag) ELSE Num(mag)

\* Number(String(value).replace(/[\,\s]/g, "")) for undefined-free scalars
ToNumber(value) ==
    CASE value.t = "number" -> value
      [] value.t = "string" -> ParseNumber(StripSeparators(value.s))
      [] OTHER -> NaN

\* Math.trunc on fixed point
Trunc(m) == IF m >= 0 THEN (m \div Scale) * Scale ELSE -(((-m) \div Scale) * Scale)

Pow10(d) == 10 ^ d

\* Math.round(x) = floor(x + 1/2); Number.EPSILON is below the fixed-point step
roundTo(value, decimals) ==
    IF Nullish(value) THEN Null
    ELSE LET factor == Pow10(decimals)
             r == (2 * value.m * factor + Scale) \div (2 * Scale)
         IN Num((r * Scale) \div factor)

coerceInt(value) ==
    IF Nullish(value) THEN Null
    ELSE LET n == ToNumber(value)
         IN IF n = NaN THEN Null ELSE Num(Trunc(n.m))

coerceFloat(value, decimals) ==
    IF Nullish(value) THEN Null
    ELSE LET n == ToNumber(value)
         IN IF n = NaN THEN Null ELSE roundTo(n, decimals)

(* --------------------------- detail extraction -------------------------- *)

DetailFields ==
    {"min_players", "max_players", "min_best_players", "max_best_players",
     "min_playing_time", "max_playing_time", "weight"}

\* the all-missing DetailAttributes literal
AllMissing == [k \in DetailFields |-> Null]

\* An embedded data block of a page: not located, located but rejected by
\* JSON.parse, or located and parsed to a JS value.
NoBlock == [found |-> FALSE]
BadBlock == [found |-> TRUE, parses |-> FALSE]
Block(json) == [found |-> TRUE, parses |-> TRUE, json |-> json]
Usable(block) == block.found /\ block.parses

\* array.find(pred), hits being the indexes at which pred holds: the first
\* such element, else undefined
Find(a, hits) == IF hits = {} THEN Undefined ELSE a[Min(hits)]

\* variant: only the first range is read
RangeBoundsFirst(ranges, key) ==
    {coerceInt(Get(ranges[ix], key)).m :
        ix \in {j \in {1} : coerceInt(Get(ranges[j], key)) # Null}}

\* bestRanges.map((r) => coerceInt(r?.[key])).filter((n) => n != null)
RangeBounds(ranges, key) ==
    {coerceInt(Get(ranges[ix], key)).m :
        ix \in {j \in 1..Len(ranges) : coerceInt(Get(ranges[j], key)) # Null}}

\* Primary: the parsed GEEK.geekitemPreload object
PrimaryStrategy(preload) ==
    LET item == OrElse(Get(preload, "item"), EmptyObj)
        weightFromPoll == Get(Get(Get(item, "polls"), "boardgameweight"), "averageweight")
        weightFromStats == Get(Get(item, "stats"), "avgweight")
        bestRanges == Get(Get(Get(item, "polls"), "userplayers"), "best")
        hasRanges == IsArray(bestRanges) /\ Len(bestRanges.a) > 0
        mins == IF hasRanges THEN RangeBounds(bestRanges.a, "min") ELSE {}
        maxs == IF hasRanges THEN RangeBounds(bestRanges.a, "max") ELSE {}
        both == mins # {} /\ maxs # {}
    IN [min_players |-> coerceInt(Get(item, "minplayers")),
        max_players |-> coerceInt(Get(item, "maxplayers")),
        min_best_players |-> IF both THEN Num(Min(mins)) ELSE Null,
        max_best_players |-> IF both THEN Num(Max(maxs)) ELSE Null,
        min_playing_time |-> coerceInt(Get(item, "minplaytime")),
        max_playing_time |-> coerceInt(Get(item, "maxplaytime")),
        weight |-> coerceFloat(Coalesce(weightFromPoll, weightFromStats), 2)]

\* regex.test(v || "") for a regex that looks for one word, case-insensitive
HasWord(v, words) ==
    v.t = "string" /\ \E ix \in 1..Len(v.s) : v.s[ix] \in words

BestWords == {"Best", "best", "BEST"}
RecommendedWords == {"Recommended", "recommended", "RECOMMENDED"}
NotWords == {"Not", "not", "NOT"}

\* /best/i
MatchesBest(v) == HasWord(v, BestWords)
\* /recommended/i : also true of "Not Recommended"
MatchesRecommended(v) == HasWord(v, RecommendedWords)
\* /not\s*recommended/i
MatchesNotRecommended(v) ==
    /\ v.t = "string"
    /\ \E ix, j \in 1..Len(v.s) :
          /\ ix < j
          /\ v.s[ix] \in NotWords
          /\ v.s[j] \in RecommendedWords
          /\ \A k \in (ix + 1)..(j - 1) : v.s[k] = " "
\* /suggested_numplayers/i
MatchesSuggested(v) == HasWord(v, {"suggested_numplayers", "Suggested_NumPlayers"})

RECURSIVE DigitsOf(_)
DigitsOf(n) ==
    IF n < 10 THEN <<DigitChars[n + 1]>>
    ELSE Append(DigitsOf(n \div 10), DigitChars[(n % 10) + 1])

\* the first maximal run of digits of token sequence s, or <<>>
FirstDigitRun(s) ==
    LET at == {ix \in 1..Len(s) : IsDigit(s[ix])}
    IN IF at = {} THEN <<>>
       ELSE LET a == Min(at)
                b == Max({j \in a..Len(s) : \A k \in a..j : IsDigit(s[k])})
            IN SubSeq(s, a, b)

\* String(v).match(/\d+/)?.[0]
MatchDigits(v) ==
    LET text == CASE v.t = "string" -> v.s
                  [] v.t = "number" ->
                       DigitsOf((IF v.m < 0 THEN -v.m ELSE v.m) \div Scale)
                  [] OTHER -> <<>>
        run == FirstDigitRun(text)
    IN IF run = <<>> THEN Undefined ELSE Str(run)

\* coerceInt(entry?.numvotes) || 0
Votes(entry) ==
    LET v == coerceInt(Get(entry, "numvotes"))
    IN IF Truthy(v) THEN v.m ELSE 0

\* the player count of one poll option, 0 when the loop skips it (!num)
OptionNum(r) ==
    LET token == OrElse(Get(r, "numplayers"), OrElse(Get(r, "numPlayers"), Str(<<>>)))
        num == coerceInt(MatchDigits(token))
    IN IF Truthy(num) THEN num.m ELSE 0

ResultEntries(r) == IF IsArray(Get(r, "result")) THEN Get(r, "result").a ELSE <<>>

\* rr?.value || ""
EntryLabel(rr) == OrElse(Get(rr, "value"), Str(<<>>))

BestVotes(r) ==
    LET a == ResultEntries(r)
    IN Votes(Find(a, {k \in 1..Len(a) : MatchesBest(EntryLabel(a[k]))}))
RecVotes(r) ==
    LET a == ResultEntries(r)
    IN Votes(Find(a, {k \in 1..Len(a) : MatchesRecommended(EntryLabel(a[k]))}))
NotRecVotes(r) ==
    LET a == ResultEntries(r)
    IN Votes(Find(a, {k \in 1..Len(a) : MatchesNotRecommended(EntryLabel(a[k]))}))

\* variant: "best" must beat both other tallies strictly
OptionIsBestStrict(r) ==
    /\ BestVotes(r) > 0
    /\ BestVotes(r) > RecVotes(r)
    /\ BestVotes(r) > NotRecVotes(r)

\* if (maxVotes > 0 && bestVotes === maxVotes) bestNumbers.push(num)
OptionIsBest(r) ==
    LET maxVotes == Max({BestVotes(r), RecVotes(r), NotRecVotes(r)})
    IN maxVotes > 0 /\ BestVotes(r) = maxVotes

\* the player counts pushed to bestNumbers by the loop over bestPoll.results
BestNumbers(entries) ==
    {OptionNum(entries[ix]) :
        ix \in {j \in 1..Len(entries) : OptionNum(entries[j]) # 0 /\ OptionIsBest(entries[j])}}

\* Secondary: the parsed __NEXT_DATA__ object
SecondaryStrategy(nextData) ==
    LET pageProps == OrElse(Get(Get(nextData, "props"), "pageProps"), EmptyObj)
        game == OrElse(Get(pageProps, "game"),
                  OrElse(Get(Get(pageProps, "data"), "game"),
                    OrElse(Get(pageProps, "boardgame"), pageProps)))
        Pick(lower, camel) ==
            Coalesce(Get(game, lower),
              Coalesce(Get(game, camel),
                Coalesce(Get(pageProps, lower), Get(pageProps, camel))))
        weightRaw ==
            Coalesce(Get(Get(Get(game, "statistics"), "ratings"), "averageweight"),
              Coalesce(Get(game, "averageweight"),
                Coalesce(Get(game, "averageWeight"),
                  Coalesce(Get(Get(Get(pageProps, "statistics"), "ratings"), "averageweight"),
                    Coalesce(Get(pageProps, "averageweight"), Get(pageProps, "averageWeight"))))))
        polls == OrElse(Get(game, "polls"), OrElse(Get(pageProps, "polls"), Arr(<<>>)))
        bestPoll == IF IsArray(polls)
                    THEN Find(polls.a, {k \in 1..Len(polls.a) :
                           MatchesSuggested(OrElse(Get(polls.a[k], "name"), Str(<<>>)))})
                    ELSE Null
        bestNumbers == IF Truthy(bestPoll) /\ IsArray(Get(bestPoll, "results"))
                       THEN BestNumbers(Get(bestPoll, "results").a)
                       ELSE {}
    IN [min_players |-> coerceInt(Pick("minplayers", "minPlayers")),
        max_players |-> coerceInt(Pick("maxplayers", "maxPlayers")),
        min_best_players |-> IF bestNumbers # {} THEN Num(Min(bestNumbers)) ELSE Null,
        max_best_players |-> IF bestNumbers # {} THEN Num(Max(bestNumbers)) ELSE Null,
        min_playing_time |-> coerceInt(Pick("minplaytime", "minPlaytime")),
        max_playing_time |-> coerceInt(Pick("maxplaytime", "maxPlaytime")),
        weight |-> coerceFloat(weightRaw, 2)]

\* Array.from(s.matchAll(/\d+/g)).map((m) => Number(m[0])), as a set
DigitRunValues(s) ==
    {DigitsValue(FirstDigitRun(SubSeq(s, ix, Len(s)))) * Scale :
        ix \in {j \in 1..Len(s) : IsDigit(s[j]) /\ (j = 1 \/ ~IsDigit(s[j - 1]))}}

\* bestMatch is the capture of /Best:\s*([\d,\s\-\u2013]+)/i in the text, undefined
\* when the text is empty or the pattern does not match
parseBestPlayersFromText(bestMatch) ==
    IF bestMatch.t # "string" THEN [min |-> Null, max |-> Null]
    ELSE LET nums == DigitRunValues(bestMatch.s)
         IN IF nums = {} THEN [min |-> Null, max |-> Null]
            ELSE [min |-> Num(Min(nums)), max |-> Num(Max(nums))]

\* Fallback: text holds what each pattern captures in $("body").text():
\* players/time an array of the two captures, best and weight one capture,
\* undefined where the pattern does not match
FallbackStrategy(text) ==
    LET Capture(m, ix) == IF IsArray(m) THEN coerceInt(m.a[ix]) ELSE Null
        bestPlayers == parseBestPlayersFromText(text.best)
    IN [min_players |-> Capture(text.players, 1),
        max_players |-> Capture(text.players, 2),
        min_best_players |-> bestPlayers.min,
        max_best_players |-> bestPlayers.max,
        min_playing_time |-> Capture(text.time, 1),
        max_playing_time |-> Capture(text.time, 2),
        weight |-> IF Truthy(text.weight) THEN coerceFloat(text.weight, 2) ELSE Null]

\* variant: a field the primary payload lacks is taken from the next strategy
extractDetailsMixing(html) ==
    LET lower == IF Usable(html.nextData) THEN SecondaryStrategy(html.nextData.json)
                 ELSE FallbackStrategy(html.text)
    IN IF Usable(html.preload)
       THEN [k \in DetailFields |->
               Coalesce(PrimaryStrategy(html.preload.json)[k], lower[k])]
       ELSE lower

\* variant: a block that does not parse ends the extraction with nothing
extractDetailsNoFallThrough(html) ==
    IF html.preload = BadBlock \/ (~Usable(html.preload) /\ html.nextData = BadBlock)
    THEN AllMissing
    ELSE IF Usable(html.preload) THEN PrimaryStrategy(html.preload.json)
    ELSE IF Usable(html.nextData) THEN SecondaryStrategy(html.nextData.json)
    ELSE FallbackStrategy(html.text)

\* html = [preload, nextData : blocks, text : captures]
extractDetailsFromGameHtml(html) ==
    IF Usable(html.preload) THEN PrimaryStrategy(html.preload.json)
    ELSE IF Usable(html.nextData) THEN SecondaryStrategy(html.nextData.json)
    ELSE FallbackStrategy(html.text)

(* ---------------------------- listing pages ---------------------------- *)

START_URL == Str(<<"https://boardgamegeek.com", "/browse/boardgame">>)

Origin == "https://boardgamegeek.com"

\* s.startsWith("http")
StartsWithHttp(v) == v.s # <<>> /\ v.s[1] \in {Origin, "http:", "https:"}

\* new URL(relative, base).toString() for a path-absolute reference
Resolve(v) == Str(<<Origin>> \o v.s)

\* variant: the empty and the lone-dash text are not set apart
normalizeNumberNoBlankCheck(text) ==
    IF ~Truthy(text) THEN Null
    ELSE LET num == ParseNumber(StripSeparators(text.s))
         IN IF num = NaN THEN Null ELSE num

normalizeNumber(text) ==
    IF ~Truthy(text) THEN Null
    ELSE LET cleaned == StripSeparators(text.s)
         IN IF cleaned \in {<<>>, <<EnDash>>, <<"-">>} THEN Null
            ELSE LET num == ParseNumber(cleaned)
                 IN IF num = NaN THEN Null ELSE num

\* the rank of a table row: data-sort attribute first, cell text second
RowRank(row) == normalizeNumber(OrElse(row.rankSort, row.rankText))

\* rows with fewer than 6 cells or without a parseable rank are skipped
RowQualifies(row) == row.tds >= 6 /\ RowRank(row) # Null

\* the record games.push(...) builds for one qualifying row
GameOfRow(row) ==
    LET src == OrElse(row.imgSrc, OrElse(row.imgDataSrc, Str(<<>>)))
        imgSrc == IF Truthy(src) /\ src.s[1] = "//" THEN Str(<<"https:">> \o src.s) ELSE src
        href == OrElse(row.href, Str(<<>>))
        relativeHref == IF Truthy(href) /\ ~StartsWithHttp(href) THEN Resolve(href) ELSE href
        geekRatingRaw == normalizeNumber(OrElse(row.grSort, row.grText))
        avgRatingRaw == normalizeNumber(OrElse(row.arSort, row.arText))
        numVotersRaw == normalizeNumber(OrElse(row.nvSort, row.nvText))
    IN [rank |-> RowRank(row),
        title |-> row.title,
        year |-> IF Truthy(row.cellYear) THEN normalizeNumber(row.cellYear) ELSE Null,
        image |-> IF Truthy(imgSrc) THEN Str(<<"@">> \o imgSrc.s) ELSE Null,
        url |-> OrElse(relativeHref, Null),
        geek_rating |-> roundTo(geekRatingRaw, 3),
        avg_rating |-> roundTo(avgRatingRaw, 2),
        num_voters |-> roundTo(numVotersRaw, 0)]

\* html = [rows : the <tr> of table#collectionitems, next : href of "Next >>"]
\* rows.each(...): a row without a rank cell or a title link is skipped
\* (return), any other row pushes one game
extractGamesFromHtml(html) ==
    LET kept == SelectSeq(html.rows, RowQualifies)
    IN [k \in 1..Len(kept) |-> GameOfRow(kept[k])]

getNextPageUrl(html) ==
    IF Truthy(html.next)
    THEN IF StartsWithHttp(html.next) THEN html.next ELSE Resolve(html.next)
    ELSE Null

\* results after one page: existingRanks is computed once, before the rows
\* of the page are appended
AppendNewRanks(known, pageGames) ==
    LET existingRanks == {known[k].rank : k \in 1..Len(known)}
    IN known \o SelectSeq(pageGames, LAMBDA g : g.rank \notin existingRanks)

(* --------------------------- detail page inputs ------------------------- *)

\* largest vote tally of a poll entry on an enumerated page
MaxVotes == 5

\* m / Scale as decimal text, e.g. 3.456
FormatDecimal(m) ==
    DigitsOf(m \div Scale) \o <<".">>
      \o <<DigitChars[((m \div 100) % 10) + 1], DigitChars[((m \div 10) % 10) + 1],
           DigitChars[(m % 10) + 1]>>

\* A page is described by what each of its three sources holds: vals gives
\* the seven attributes a source states (Null where it states none), poll
\* the options of the suggested_numplayers poll of the alternate payload.
DescFull(a) ==
    [min_players |-> N(a), max_players |-> N(a + 3),
     min_best_players |-> N(a + 1), max_best_players |-> N(a + 2),
     min_playing_time |-> N(30 * a), max_playing_time |-> N(60 * a),
     weight |-> Num(a * Scale + 250)]
DescPartial(a) ==
    [min_players |-> N(a), max_players |-> Null,
     min_best_players |-> Null, max_best_players |-> Null,
     min_playing_time |-> Null, max_playing_time |-> N(60 * a),
     weight |-> Null]

\* one option of the poll: its player count, its three tallies, and whether
\* the entries come as Best, Recommended, Not Recommended ("standard") or as
\* Best, Not Recommended, Recommended ("notRecFirst")
PollOption(n, b, r, x, order) ==
    [players |-> n, best |-> b, rec |-> r, notrec |-> x, order |-> order]

\* the poll that states exactly the best range of vals
PollOfRange(vals) ==
    IF vals.min_best_players = Null THEN <<>>
    ELSE [k \in 1..((vals.max_best_players.m - vals.min_best_players.m) \div Scale + 1) |->
            PollOption((vals.min_best_players.m \div Scale) + k - 1, 5, 1, 0, "standard")]

PrimaryGiven ==
    {[kind |-> "none"], [kind |-> "bad"]}
      \cup {[kind |-> "ok", vals |-> v] : v \in {DescFull(1), DescPartial(1), AllMissing}}

AlternateGiven ==
    {[kind |-> "none"], [kind |-> "bad"]}
      \cup {[kind |-> "ok", vals |-> v, poll |-> PollOfRange(v)] :
              v \in {DescFull(2), DescPartial(2)}}

TextGiven == {[vals |-> v] : v \in {DescFull(3), AllMissing}}

Tallies == 0..MaxVotes

\* pages whose only source is the alternate payload, with a two-option poll
VoteGiven ==
    {[primary |-> [kind |-> "none"],
      alternate |-> [kind |-> "ok", vals |-> AllMissing,
                     poll |-> <<PollOption(3, b, r, x, o), second>>],
      text |-> [vals |-> AllMissing]] :
        b \in Tallies, r \in Tallies, x \in Tallies, o \in {"standard", "notRecFirst"},
        second \in {PollOption(4, 5, 5, 0, "standard"), PollOption(4, 0, 0, 0, "standard"),
                    PollOption(4, 2, 5, 1, "notRecFirst")}}

PriorityGiven == [primary : PrimaryGiven, alternate : AlternateGiven, text : TextGiven]

\* what a payload may hold under an attribute's key: null, empty text,
\* whitespace, text that is no number, zero and two as text and as numbers
RawValues ==
    {Null, Str(<<>>), Str(<<" ">>), Str(<<"a">>), Str(<<"0">>), Num(0),
     Str(<<"2">>), N(2)}

\* pages whose only source is one payload holding the same raw value under
\* every attribute key
RawGiven ==
    {[primary |-> [kind |-> "raw", raw |-> r, vals |-> [f \in DetailFields |-> r]],
      alternate |-> [kind |-> "none"],
      text |-> [vals |-> AllMissing]] : r \in RawValues}
      \cup
    {[primary |-> [kind |-> "none"],
      alternate |-> [kind |-> "raw", raw |-> r, vals |-> [f \in DetailFields |-> r],
                     poll |-> <<>>],
      text |-> [vals |-> AllMissing]] : r \in RawValues}

\* most ranges in polls.userplayers.best on an enumerated page
MaxRanges == 2

\* pages whose only source is a primary payload that states nothing but the
\* ranges of polls.userplayers.best, each with or without a min and a max
RangesGiven ==
    {[primary |-> [kind |-> "ranges", vals |-> AllMissing, ranges |-> rs],
      alternate |-> [kind |-> "none"],
      text |-> [vals |-> AllMissing]] :
        rs \in UNION {[1..n -> [min : {Null, N(2), N(4)}, max : {Null, N(3), N(5)}]] :
                        n \in 0..MaxRanges}}

DetailGiven == PriorityGiven \cup VoteGiven \cup RawGiven \cup RangesGiven

\* the GEEK.geekitemPreload block stating vals
PrimaryBlock(p) ==
    CASE p.kind = "none" -> NoBlock
      [] p.kind = "bad" -> BadBlock
      [] OTHER ->
           Block(Obj([item |-> Obj(
             [minplayers |-> p.vals.min_players,
              maxplayers |-> p.vals.max_players,
              minplaytime |-> p.vals.min_playing_time,
              maxplaytime |-> p.vals.max_playing_time,
              polls |-> Obj(
                [boardgameweight |-> Obj([averageweight |-> p.vals.weight]),
                 userplayers |-> Obj([best |-> Arr(
                   IF p.kind = "ranges" THEN [k \in 1..Len(p.ranges) |-> Obj(p.ranges[k])]
                   ELSE IF p.vals.min_best_players = Null THEN <<>>
                   ELSE <<Obj([min |-> p.vals.min_best_players,
                               max |-> p.vals.max_best_players])>>)])])])]))

BestLabel == Str(<<"Best">>)
RecLabel == Str(<<"Recommended">>)
NotRecLabel == Str(<<"Not", " ", "Recommended">>)

VoteEntry(label, votes) == Obj([value |-> label, numvotes |-> Str(DigitsOf(votes))])

OptionObject(o) ==
    Obj([numplayers |-> Str(DigitsOf(o.players)),
         result |-> Arr(
           IF o.order = "standard"
           THEN <<VoteEntry(BestLabel, o.best), VoteEntry(RecLabel, o.rec),
                  VoteEntry(NotRecLabel, o.notrec)>>
           ELSE <<VoteEntry(BestLabel, o.best), VoteEntry(NotRecLabel, o.notrec),
                  VoteEntry(RecLabel, o.rec)>>)])

\* the __NEXT_DATA__ block stating vals and poll
AlternateBlock(a) ==
    CASE a.kind = "none" -> NoBlock
      [] a.kind = "bad" -> BadBlock
      [] OTHER ->
           Block(Obj([props |-> Obj([pageProps |-> Obj([game |-> Obj(
             [minplayers |-> a.vals.min_players,
              maxPlayers |-> a.vals.max_players,
              minplaytime |-> a.vals.min_playing_time,
              maxPlaytime |-> a.vals.max_playing_time,
              averageweight |-> a.vals.weight,
              polls |-> Arr(<<
                Obj([name |-> Str(<<"language_dependence">>), results |-> Arr(<<>>)]),
                Obj([name |-> Str(<<"suggested_numplayers">>),
                     results |-> Arr([k \in 1..Len(a.poll) |-> OptionObject(a.poll[k])])])>>)])])])]))

\* what the patterns of the fallback capture in a body text stating vals
TextCaptures(x) ==
    LET Digits(v) == Str(DigitsOf(v.m \div Scale))
        Pair(lo, hi) == IF lo = Null \/ hi = Null THEN Undefined
                        ELSE Arr(<<Digits(lo), Digits(hi)>>)
    IN [players |-> Pair(x.vals.min_players, x.vals.max_players),
        time |-> Pair(x.vals.min_playing_time, x.vals.max_playing_time),
        best |-> IF x.vals.min_best_players = Null THEN Undefined
                 ELSE Str(Digits(x.vals.min_best_players).s \o <<EnDash>>
                            \o Digits(x.vals.max_best_players).s),
        weight |-> IF x.vals.weight = Null THEN Undefined
                   ELSE Str(FormatDecimal(x.vals.weight.m))]

PageOf(g) ==
    [preload |-> PrimaryBlock(g.primary),
     nextData |-> AlternateBlock(g.alternate),
     text |-> TextCaptures(g.text)]

(* ------------------------- normalizeNumber inputs ----------------------- *)

\* longest enumerated cell text, in characters
MaxText == 3

\* characters of a cell text: digits, the thousands separator, whitespace,
\* dash and en-dash, the decimal point, a letter
TextChars == {"0", "1", ",", " ", "-", EnDash, ".", "a"}

\* what normalizeNumber is called with: a missing attribute, or a text
NormalizeGiven ==
    {Undefined, Null, Str(<<"1", ",", "2", "3", "4">>)}
      \cup {Str(t) : t \in UNION {[1..n -> TextChars] : n \in 0..MaxText}}

(* -------------------------------- viewer -------------------------------- *)

\* the state object of viewer.js as the script creates it
InitialState ==
    [games |-> <<>>, filtered |-> <<>>,
     sortKey |-> "rank", sortDir |-> "asc",
     query |-> Str(<<>>),
     weightOp |-> "all", weightValue |-> Str(<<>>),
     minPlayersOp |-> "all", minPlayersValue |-> Str(<<>>),
     maxPlayersOp |-> "all", maxPlayersValue |-> Str(<<>>),
     minBestPlayersOp |-> "all", minBestPlayersValue |-> Str(<<>>),
     maxBestPlayersOp |-> "all", maxBestPlayersValue |-> Str(<<>>),
     minTimeOp |-> "all", minTimeValue |-> Str(<<>>),
     maxTimeOp |-> "all", maxTimeValue |-> Str(<<>>)]

numberKeys ==
    {"rank", "year", "geek_rating", "avg_rating", "num_voters", "min_players",
     "max_players", "min_best_players", "max_best_players", "min_playing_time",
     "max_playing_time", "weight"}

\* the range filters of applyFilterAndSort in the order it applies them: the
\* record field, the state fields of operator and value, the label of
\* renderSummary, and whether a comma in the value is read as the point
RangeFilters ==
    <<[key |-> "weight", op |-> "weightOp", value |-> "weightValue",
       label |-> "Weight", comma |-> TRUE],
      [key |-> "min_players", op |-> "minPlayersOp", value |-> "minPlayersValue",
       label |-> "Min P", comma |-> FALSE],
      [key |-> "max_players", op |-> "maxPlayersOp", value |-> "maxPlayersValue",
       label |-> "Max P", comma |-> FALSE],
      [key |-> "min_best_players", op |-> "minBestPlayersOp",
       value |-> "minBestPlayersValue", label |-> "Best Min", comma |-> FALSE],
      [key |-> "max_best_players", op |-> "maxBestPlayersOp",
       value |-> "maxBestPlayersValue", label |-> "Best Max", comma |-> FALSE],
      [key |-> "min_playing_time", op |-> "minTimeOp", value |-> "minTimeValue",
       label |-> "Min Time", comma |-> FALSE],
      [key |-> "max_playing_time", op |-> "maxTimeOp", value |-> "maxTimeValue",
       label |-> "Max Time", comma |-> FALSE]>>

\* g[key], undefined when the record has no such property
Field(g, key) == IF key \in DOMAIN g THEN g[key] ELSE Undefined

\* String.prototype.trim
TrimText(s) ==
    LET inked == {k \in 1..Len(s) : s[k] # " "}
    IN IF inked = {} THEN <<>> ELSE SubSeq(s, Min(inked), Max(inked))

\* Number(v): null is 0, undefined is NaN, a text is read after trimming
NumberOf(v) ==
    CASE v.t = "null" -> Num(0)
      [] v.t = "number" -> v
      [] v.t = "string" -> ParseNumber(TrimText(v.s))
      [] OTHER -> NaN

\* String(v); a number prints its integer part and up to three decimals
StringOf(v) ==
    LET a == IF v.m < 0 THEN -v.m ELSE v.m
        frac == <<DigitChars[((a \div 100) % 10) + 1], DigitChars[((a \div 10) % 10) + 1],
                  DigitChars[(a % 10) + 1]>>
        kept == Max({0} \cup {k \in 1..3 : frac[k] # "0"})
    IN CASE v.t = "string" -> v.s
         [] v.t = "number" ->
              (IF v.m < 0 THEN <<"-">> ELSE <<>>) \o DigitsOf(a \div Scale)
                \o (IF kept = 0 THEN <<>> ELSE <<".">> \o SubSeq(frac, 1, kept))
         [] v.t = "null" -> <<"n", "u", "l", "l">>
         [] OTHER -> <<"u", "n", "d", "e", "f", "i", "n", "e", "d">>

\* the characters in use: the small letter of each capital, and the place
\* of each character in the collation order
Alphabet ==
    LET small == <<"a", "b", "c", "d", "e", "f", "g", "h", "i", "j", "k", "l", "m", "n",
                   "o", "p", "q", "r", "s", "t", "u", "v", "w", "x", "y", "z">>
        capital == <<"A", "B", "C", "D", "E", "F", "G", "H", "I", "J", "K", "L", "M", "N",
                     "O", "P", "Q", "R", "S", "T", "U", "V", "W", "X", "Y", "Z">>
        collation == <<" ", "-", ",", ".">> \o DigitChars \o small
    IN [lower |-> [c \in {capital[n] : n \in 1..26} |->
                     small[CHOOSE n \in 1..26 : capital[n] = c]],
        rank |-> [c \in {collation[n] : n \in 1..Len(collation)} |->
                    CHOOSE n \in 1..Len(collation) : collation[n] = c]]

\* String.prototype.toLowerCase
toLowerCase(s) ==
    [k \in 1..Len(s) |->
       IF s[k] \in DOMAIN Alphabet.lower THEN Alphabet.lower[s[k]] ELSE s[k]]

\* String.prototype.includes
Includes(hay, needle) ==
    \E k \in 0..(Len(hay) - Len(needle)) : SubSeq(hay, k + 1, k + Len(needle)) = needle

\* String.prototype.replace(",", "."): the first comma only
ReplaceComma(s) ==
    LET at == {k \in 1..Len(s) : s[k] = ","}
    IN IF at = {} THEN s ELSE [s EXCEPT ![Min(at)] = "."]

\* x.localeCompare(y, undefined, {sensitivity: "base", numeric: true}): left to
\* right by collation order, letters differing in case only being equal, a
\* run of digits against a run of digits by value
RECURSIVE localeCompare(_, _)
localeCompare(x, y) ==
    LET rank(c) == LET low == toLowerCase(<<c>>)[1]
                   IN IF low \in DOMAIN Alphabet.rank THEN Alphabet.rank[low] ELSE 0
        leading(s) == Max({0} \cup {k \in 1..Len(s) : \A j \in 1..k : IsDigit(s[j])})
        sign(n) == IF n < 0 THEN -1 ELSE IF n > 0 THEN 1 ELSE 0
    IN IF x = <<>> \/ y = <<>> THEN sign(Len(x) - Len(y))
       ELSE IF IsDigit(x[1]) /\ IsDigit(y[1]) THEN
         LET nx == leading(x)
             ny == leading(y)
             byValue == sign(DigitsValue(SubSeq(x, 1, nx)) - DigitsValue(SubSeq(y, 1, ny)))
         IN IF byValue # 0 THEN byValue
            ELSE localeCompare(SubSeq(x, nx + 1, Len(x)), SubSeq(y, ny + 1, Len(y)))
       ELSE IF rank(x[1]) # rank(y[1]) THEN sign(rank(x[1]) - rank(y[1]))
       ELSE localeCompare(Tail(x), Tail(y))

getCellValue(game, key) ==
    LET value == Field(game, key)
    IN IF value = Null \/ value = Undefined THEN Str(<<>>)
       ELSE IF key \in numberKeys THEN value
       ELSE Str(StringOf(value))

\* compare with the direction left out: ascending whatever dir says
compareAscending(a, b, key, dir) ==
    LET va == getCellValue(a, key)
        vb == getCellValue(b, key)
    IN IF va.t = "number" /\ vb.t = "number" THEN va.m - vb.m
       ELSE localeCompare(StringOf(va), StringOf(vb))

compare(a, b, key, dir) ==
    LET va == getCellValue(a, key)
        vb == getCellValue(b, key)
        res == IF va.t = "number" /\ vb.t = "number" THEN va.m - vb.m
               ELSE localeCompare(StringOf(va), StringOf(vb))
    IN IF dir = "asc" THEN res ELSE -res

\* Array.prototype.sort with compare: stable, each row goes before the first
\* row already placed that compares above it
RECURSIVE SortRows(_, _, _)
SortRows(rows, key, dir) ==
    IF rows = <<>> THEN <<>>
    ELSE
      LET head == SortRows(SubSeq(rows, 1, Len(rows) - 1), key, dir)
          row == rows[Len(rows)]
          above == {k \in 1..Len(head) : compare(head[k], row, key, dir) > 0}
          at == IF above = {} THEN Len(head) + 1 ELSE Min(above)
      IN SubSeq(head, 1, at - 1) \o <<row>> \o SubSeq(head, at, Len(head))

\* the text of the search box applied to one record
MatchesQuery(st, g) ==
    LET q == toLowerCase(TrimText(st.query.s))
        \* x || "": the falsy values give way
        orEmpty(x) == IF x \in {Undefined, Null, NaN, Num(0), Str(<<>>)} THEN Str(<<>>) ELSE x
    IN q # <<>> =>
         \/ Includes(toLowerCase(StringOf(orEmpty(Field(g, "title")))), q)
         \/ Includes(StringOf(orEmpty(Field(g, "year"))), q)

\* the threshold one range filter reads from its value
Threshold(st, filter) ==
    NumberOf(Str(IF filter.comma THEN ReplaceComma(st[filter.value].s)
                 ELSE st[filter.value].s))

\* one range filter applied to one record
PassesRange(st, filter, g) ==
    LET threshold == Threshold(st, filter)
        op == IF st[filter.op] = "all" THEN "gte" ELSE st[filter.op]
        v == NumberOf(Field(g, filter.key))
    IN (st[filter.value] # Str(<<>>) /\ threshold # NaN) =>
         CASE op = "lte" -> v # NaN /\ v.m <= threshold.m
           [] op = "gte" -> v # NaN /\ v.m >= threshold.m
           [] OTHER -> TRUE

\* applyFilterAndSort: state.filtered of the state st
applyFilterAndSort(st) ==
    LET kept == SelectSeq(st.games, LAMBDA g :
                   /\ MatchesQuery(st, g)
                   /\ \A k \in 1..Len(RangeFilters) : PassesRange(st, RangeFilters[k], g))
    IN [st EXCEPT !.filtered = SortRows(kept, st.sortKey, st.sortDir)]

\* renderSummary: the counts and one part per filter whose value is not empty
renderSummary(st) ==
    LET on == {k \in 1..Len(RangeFilters) : st[RangeFilters[k].value] # Str(<<>>)}
        part(k) == [label |-> RangeFilters[k].label,
                    sign |-> IF st[RangeFilters[k].op] = "lte" THEN "<=" ELSE ">=",
                    value |-> IF RangeFilters[k].comma
                                THEN ReplaceComma(st[RangeFilters[k].value].s)
                                ELSE st[RangeFilters[k].value].s]
        RECURSIVE Parts(_)
        Parts(k) == IF k > Len(RangeFilters) THEN <<>>
                    ELSE (IF k \in on THEN <<part(k)>> ELSE <<>>) \o Parts(k + 1)
    IN [shown |-> Len(st.filtered), total |-> Len(st.games), parts |-> Parts(1)]

(* ----------------------------- viewer inputs ----------------------------- *)

\* most controls (search box, filter operators, filter values, sort order)
\* that stand off their initial setting at one time
MaxChanged == 2

\* what boardgames.json may hold: records with every range field a number,
\* null (written without a detail page address), absent (the detail fetch
\* failed) or zero, and something that is no array
ViewerData ==
    LET GameWith(rank, title, year, v) ==
          [rank |-> N(rank), title |-> Str(title), year |-> N(year), geek_rating |-> N(8),
           weight |-> v, min_players |-> v, max_players |-> v, min_best_players |-> v,
           max_best_players |-> v, min_playing_time |-> v, max_playing_time |-> v]
        Brass == GameWith(1, <<"B", "r", "a", "s", "s">>, 2018, N(3))
        Catan == GameWith(2, <<"C", "a", "t", "a", "n">>, 1995, Null)
        Azul == [rank |-> N(3), title |-> Str(<<"a", "z", "u", "l">>), year |-> N(2017),
                 geek_rating |-> N(7)]
        Go == GameWith(4, <<"G", "o">>, 0, Num(0))
        Root == [GameWith(5, <<"1", "0", " ", "R">>, 2018, N(2)) EXCEPT
                   !.weight = Num(2500), !.max_players = N(4)]
        Ark == [GameWith(6, <<"9", " ", "a">>, 2021, N(2)) EXCEPT !.weight = Num(2500)]
    IN {Arr(<<Brass, Catan, Azul, Go>>), Arr(<<Root, Ark, Brass>>), Obj(<<>>)}

\* what the user does: texts typed into the search box, texts typed into a
\* filter value box, filter operators chosen, column headers clicked
Controls ==
    [queries |-> {Str(<<>>), Str(<<" ", "B", "R">>), Str(<<"2", "0", "1", "8">>)},
     texts |-> {Str(<<>>), Str(<<"0">>), Str(<<"2", ",", "5">>), Str(<<"x">>), Str(<<" ">>)},
     ops |-> {"all", "lte", "gte"},
     keys |-> {"rank", "title", "weight"}]

\* how many controls of st stand off their initial setting
Changed(st) ==
    Cardinality({f \in DOMAIN InitialState \ {"games", "filtered", "sortKey", "sortDir"} :
                   st[f] # InitialState[f]})
      + (IF st.sortKey = InitialState.sortKey /\ st.sortDir = InitialState.sortDir
           THEN 0 ELSE 1)

(* --------------------------- crawl run inputs --------------------------- *)

\* most data rows on one listing page
MaxRows == 2
\* largest --limit argument tried
MaxLimit == 2
\* most attempts a direct call of fetchGameDetails is given
MaxAttempts == 9

\* parseArgs: limit when --limit is not given
DefaultLimit == 250
\* fetchGameDetails(gameUrl, attempts = 3)
DefaultAttempts == 3
\* parseArgs: delayMs when --delay is not given
DefaultDelay == 500
\* Math.min(2000, 250 * attempt), in ms
BackoffCeiling == 2000
BackoffStep == 250

Ranks == {1, 2}

\* a data row of table#collectionitems
DataRow(rank, title, href) ==
    [tds |-> 7,
     rankSort |-> Undefined, rankText |-> Str(DigitsOf(rank)),
     imgSrc |-> Str(<<"//", "cf.geekdo-images.com/pic.jpg">>), imgDataSrc |-> Undefined,
     title |-> Str(<<title>>), cellYear |-> Str(<<"2", "0", "1", "8">>),
     href |-> href,
     grSort |-> Undefined, grText |-> Str(<<"8", ".", "4", "1", "2", "6">>),
     arSort |-> Undefined, arText |-> Str(<<"8", ".", "5", "9">>),
     nvSort |-> Undefined, nvText |-> Str(<<"4", "5", ",", "1", "0", "2">>)]

\* the header row: <th> cells only
HeaderRow ==
    [tds |-> 0,
     rankSort |-> Undefined, rankText |-> Str(<<>>),
     imgSrc |-> Undefined, imgDataSrc |-> Undefined,
     title |-> Str(<<>>), cellYear |-> Undefined, href |-> Undefined,
     grSort |-> Undefined, grText |-> Str(<<>>),
     arSort |-> Undefined, arText |-> Str(<<>>),
     nvSort |-> Undefined, nvText |-> Str(<<>>)]

ListingRows ==
    {DataRow(r, "Brass", Str(<<"/boardgame/224517">>)) : r \in Ranks}
      \cup {DataRow(r, "Catan", Undefined) : r \in Ranks}

\* the rows of a listing table: the header row, then up to MaxRows data rows
RowSeqs == {<<HeaderRow>> \o rs : rs \in UNION {[1..n -> ListingRows] : n \in 0..MaxRows}}

NextLinks == {Undefined, Str(<<"/browse/boardgame/page/2">>)}

ListingPages == [rows : RowSeqs, next : NextLinks]

\* every listing page together with what the loop body computes from it:
\* pageGames = extractGamesFromHtml(html), nextUrl = getNextPageUrl(html)
ParsedListingPages ==
    {[html |-> page,
      pageGames |-> extractGamesFromHtml(page),
      nextUrl |-> getNextPageUrl(page)] : page \in ListingPages}

\* listing tables given to extractGamesFromHtml alone: up to MaxRows rows of
\* five or six cells whose rank cell holds a rank, zero, a negative number, a
\* fraction, "N/A" or nothing, with or without a data-sort attribute
RowsGiven ==
    LET rows == {[DataRow(1, "Brass", Undefined) EXCEPT
                    !.tds = n, !.rankText = text, !.rankSort = sort] :
                   n \in {5, 6},
                   text \in {Str(<<"2">>), Str(<<"0">>), Str(<<"-", "1">>),
                              Str(<<"1", ".", "5">>), Str(<<"N", "/", "A">>), Str(<<>>)},
                   sort \in {Undefined, Str(<<"3">>)}}
    IN {[rows |-> rs, next |-> Undefined] : rs \in UNION {[1..n -> rows] : n \in 0..MaxRows}}

\* values and decimals given to roundTo alone: a missing value, or a number
\* of up to three decimals between -3 and 3
RoundGiven ==
    {[value |-> v, decimals |-> d] :
       v \in {Undefined, Null} \cup {Num(m) : m \in (-3 * Scale)..(3 * Scale)},
       d \in 0..3}

\* fixed listing sites of two addresses, the start and the one getNextPageUrl
\* gives for a "Next" link: at each a page of at most one data row, with or
\* without a "Next" link
Sites ==
    [{START_URL, Resolve(Str(<<"/browse/boardgame/page/2">>))} ->
       {parsed \in ParsedListingPages : Len(parsed.html.rows) <= 2}]

\* detail pages a fetch may answer with during a run
FetchedGiven ==
    {[primary |-> [kind |-> "ok", vals |-> DescFull(1)],
      alternate |-> [kind |-> "none"], text |-> [vals |-> AllMissing]],
     [primary |-> [kind |-> "none"],
      alternate |-> [kind |-> "none"], text |-> [vals |-> AllMissing]]}

\* what a failed axios.get rejects with: a new Error object per request, told
\* apart here by the request it belongs to
Rejection(ref, k) == [t |-> "error", message |-> "Request failed", ref |-> ref, request |-> k]

\* references a direct call of fetchGameDetails is given
GameUrls == {Undefined, Null, Str(<<>>), Str(<<Origin, "/boardgame/224517">>)}

VARIABLES
    pc,         \* where the run stands
    given,      \* the input of the function at work: the detail page under
                \* extraction (what each source states), the text to normalize
    extracted,  \* what the function returned, undefined before
    allPages,   \* scrapeAll argument
    limit,      \* scrapeAll argument
    delayMs,    \* scrapeAll argument
    url,        \* scrapeAll: the listing page to fetch next
    pageNo,     \* scrapeAll: page, the number of the pass, 0 once the loop is left
    nextUrl,    \* scrapeAll: nextUrl of the last loop pass, undefined if not reached
    results,    \* scrapeAll: the accumulator
    selected,   \* scrapeAll: the records chosen for enrichment
    i,          \* scrapeAll: index of the enrichment loop
    outcome,    \* per enriched index, "merged" or "failed"
    stderr,     \* messages written to process.stderr
    listingTries, \* fetchHtml calls made for the listing page at url
    outFile,    \* what writeJsonFile wrote, undefined before
    exitCode,   \* undefined while the process runs
    gameUrl,    \* fetchGameDetails argument
    attempts,   \* fetchGameDetails argument
    attempt,    \* fetchGameDetails loop counter
    lastError,  \* fetchGameDetails
    fetchLog,   \* per fetchHtml call of this fetchGameDetails call: error and sleep
    fgd,        \* how the fetchGameDetails call ended
    idleMs,     \* ms spent in sleep() since the last fetchHtml call settled
    state,      \* viewer.js: the state object
    dom,        \* viewer.js: what the page shows
    site,       \* the listing site when it is a fixed one: the page at each address
    lead        \* the fetchHtml call last started: ms slept since the one before

extractVars == <<given, extracted>>
crawlVars == <<allPages, limit, delayMs, pageNo, url, nextUrl, results, selected, i, outcome, stderr,
               listingTries, outFile, exitCode>>
callVars == <<gameUrl, attempts, attempt, lastError, fetchLog, fgd>>
paceVars == <<idleMs, lead>>
viewVars == <<state, dom>>
vars == <<pc, site, extractVars, crawlVars, callVars, paceVars, viewVars>>

Running == [st |-> "running"]
Idle == [st |-> "idle"]

NoGiven == [primary |-> [kind |-> "none"], alternate |-> [kind |-> "none"],
            text |-> [vals |-> AllMissing]]

NoExtract == given = NoGiven /\ extracted = Undefined

NoCrawl ==
    /\ allPages = FALSE /\ limit = DefaultLimit /\ delayMs = DefaultDelay
    /\ url = Null /\ nextUrl = Undefined /\ pageNo = 0
    /\ results = <<>> /\ selected = <<>> /\ i = 0 /\ outcome = <<>>
    /\ stderr = <<>> /\ listingTries = 0
    /\ outFile = Undefined /\ exitCode = Undefined

NoCall ==
    /\ gameUrl = Undefined /\ attempts = DefaultAttempts /\ attempt = 1
    /\ lastError = Null /\ fetchLog = <<>> /\ fgd = Idle

\* no fetchHtml call has started yet
NotYet == [st |-> "none"]

NoPace == idleMs = 0 /\ lead = NotYet

\* the site is not a fixed one: any page may come at any address
NoSite == site = <<>>

\* the script has loaded nothing: the state as created, the page as served
NoView ==
    /\ state = InitialState
    /\ dom = [tbody |-> <<>>, summary |-> Undefined, sorted |-> Undefined, error |-> Undefined]

\* lead once a fetchHtml call starts: the sleep since the call before it
StartFetch(prev, idle) ==
    IF prev.st = "none" THEN [st |-> "first"] ELSE [st |-> "after", ms |-> idle]

\* if (delayMs > 0) await sleep(delayMs): the ms slept
Pause == IF delayMs > 0 THEN delayMs ELSE 0

(* ------------------- extractDetailsFromGameHtml, alone ------------------ *)

InitExtract ==
    /\ pc = "extract"
    /\ given \in DetailGiven
    /\ extracted = Undefined
    /\ NoCrawl /\ NoCall /\ NoPace /\ NoView /\ NoSite

Extract ==
    /\ pc = "extract"
    /\ extracted' = extractDetailsFromGameHtml(PageOf(given))
    /\ pc' = "extracted"
    /\ UNCHANGED <<viewVars, site, given, crawlVars, callVars, paceVars>>

NextExtract == Extract

SpecExtract == InitExtract /\ [][NextExtract]_vars

(* --------------------------- normalizeNumber, alone --------------------- *)

InitNormalize ==
    /\ pc = "normalize"
    /\ given \in NormalizeGiven
    /\ extracted = Undefined
    /\ NoCrawl /\ NoCall /\ NoPace /\ NoView /\ NoSite

Normalize ==
    /\ pc = "normalize"
    /\ extracted' = normalizeNumber(given)
    /\ pc' = "normalized"
    /\ UNCHANGED <<viewVars, site, given, crawlVars, callVars, paceVars>>

NextNormalize == Normalize

SpecNormalize == InitNormalize /\ [][NextNormalize]_vars

(* ------------------- extractGamesFromHtml, roundTo, alone --------------- *)

InitListing ==
    /\ \/ pc = "rows" /\ given \in RowsGiven
       \/ pc = "round" /\ given \in RoundGiven
    /\ extracted = Undefined
    /\ NoCrawl /\ NoCall /\ NoPace /\ NoView /\ NoSite

ExtractGames ==
    /\ pc = "rows"
    /\ extracted' = Arr(extractGamesFromHtml(given))
    /\ pc' = "games"
    /\ UNCHANGED <<viewVars, site, given, crawlVars, callVars, paceVars>>

Round ==
    /\ pc = "round"
    /\ extracted' = roundTo(given.value, given.decimals)
    /\ pc' = "rounded"
    /\ UNCHANGED <<viewVars, site, given, crawlVars, callVars, paceVars>>

NextListing == ExtractGames \/ Round

SpecListing == InitListing /\ [][NextListing]_vars

(* ---------------------------- fetchGameDetails -------------------------- *)

\* variant: no ceiling
BackoffUncapped(k) == BackoffStep * k

\* const backoff = Math.min(2000, 250 * attempt)
Backoff(k) == Min({BackoffCeiling, BackoffStep * k})

\* variant: the short circuit answers zeroes, not nulls
ShortCircuitZeroes ==
    /\ pc = "details"
    /\ ~Truthy(gameUrl)
    /\ fgd' = [st |-> "returned", value |-> [k \in DetailFields |-> Num(0)]]
    /\ pc' = "settled"
    /\ UNCHANGED <<viewVars, site, extractVars, crawlVars, paceVars, gameUrl, attempts, attempt, lastError,
                   fetchLog>>

\* if (!gameUrl) return { ...all null }
ShortCircuit ==
    /\ pc = "details"
    /\ ~Truthy(gameUrl)
    /\ fgd' = [st |-> "returned", value |-> AllMissing]
    /\ pc' = "settled"
    /\ UNCHANGED <<viewVars, site, extractVars, crawlVars, paceVars, gameUrl, attempts, attempt, lastError,
                   fetchLog>>

\* fetchHtml resolves: return extractDetailsFromGameHtml(html)
DetailFetchSucceeds ==
    /\ pc = "details"
    /\ Truthy(gameUrl)
    /\ attempt <= attempts
    /\ \E g \in FetchedGiven :
          /\ given' = g
          /\ extracted' = extractDetailsFromGameHtml(PageOf(g))
          /\ fgd' = [st |-> "returned", value |-> extractDetailsFromGameHtml(PageOf(g))]
    /\ fetchLog' = Append(fetchLog, [error |-> Null, slept |-> 0])
    /\ lead' = StartFetch(lead, idleMs)
    /\ idleMs' = 0
    /\ pc' = "settled"
    /\ UNCHANGED <<viewVars, site, crawlVars, gameUrl, attempts, attempt, lastError>>

\* fetchHtml rejects: remember the error, sleep, next attempt
DetailFetchFails ==
    /\ pc = "details"
    /\ Truthy(gameUrl)
    /\ attempt <= attempts
    /\ LET e == Rejection(gameUrl, attempt)
       IN /\ lastError' = e
          /\ fetchLog' = Append(fetchLog, [error |-> e, slept |-> Backoff(attempt)])
    /\ attempt' = attempt + 1
    /\ lead' = StartFetch(lead, idleMs)
    /\ idleMs' = Backoff(attempt)
    /\ UNCHANGED <<viewVars, site, pc, extractVars, crawlVars, gameUrl, attempts, fgd>>

\* variant: the generic error is thrown whatever the attempts rejected with
ThrownGeneric(last) == Err("Failed to fetch game details")

\* the value thrown after the loop
Thrown(last) == OrElse(last, Err("Failed to fetch game details"))

\* throw lastError || new Error("Failed to fetch game details")
GiveUp ==
    /\ pc = "details"
    /\ Truthy(gameUrl)
    /\ attempt > attempts
    /\ fgd' = [st |-> "threw", error |-> Thrown(lastError)]
    /\ pc' = "settled"
    /\ UNCHANGED <<viewVars, site, extractVars, crawlVars, paceVars, gameUrl, attempts, attempt, lastError,
                   fetchLog>>

\* a call fetchGameDetails(gameUrl, attempts) on its own
InitDetails ==
    /\ pc = "details"
    /\ gameUrl \in GameUrls
    /\ attempts \in 0..MaxAttempts
    /\ attempt = 1 /\ lastError = Null /\ fetchLog = <<>> /\ fgd = Running
    /\ NoExtract /\ NoCrawl /\ NoPace /\ NoView /\ NoSite

NextDetails == ShortCircuit \/ DetailFetchSucceeds \/ DetailFetchFails \/ GiveUp

SpecDetails == InitDetails /\ [][NextDetails]_vars

(* ---------------------------- scrapeAll, main --------------------------- *)

\* page += 1; the count goes round a ring of two, for it has no end on a site
\* whose "Next" links form a circle, and only the message of line 525 reads it
NextPage(n) == (n % 2) + 1

\* Math.max(1, Number(limit) || 250), the target when allPages is off
TargetCount == Max({1, IF limit = 0 THEN DefaultLimit ELSE limit})

\* if (!allPages && results.length >= targetCount) break
TargetReached(n) == ~allPages /\ n >= TargetCount

Init ==
    /\ pc = "listing"
    /\ \/ allPages = TRUE /\ limit = DefaultLimit
       \/ allPages = FALSE /\ limit \in 1..MaxLimit
    /\ delayMs = DefaultDelay
    /\ url = START_URL /\ nextUrl = Undefined /\ pageNo = 1
    /\ results = <<>> /\ selected = <<>> /\ i = 0 /\ outcome = <<>>
    /\ stderr = <<>> /\ listingTries = 0
    /\ outFile = Undefined /\ exitCode = Undefined
    /\ NoExtract /\ NoCall /\ NoPace /\ NoView /\ NoSite

\* one pass of the while loop whose fetchHtml(url) resolves
ListingFetchSucceeds ==
    /\ pc = "listing"
    /\ \E page \in ParsedListingPages :
          LET grown == AppendNewRanks(results, page.pageGames)
              stop == TargetReached(Len(grown)) \/ page.nextUrl = Null
          IN /\ results' = grown
             /\ nextUrl' = IF TargetReached(Len(grown)) THEN Undefined ELSE page.nextUrl
             /\ url' = IF stop THEN url ELSE page.nextUrl
             /\ listingTries' = IF stop THEN listingTries + 1 ELSE 0
             /\ pageNo' = IF stop THEN 0 ELSE NextPage(pageNo)
             /\ idleMs' = IF stop THEN 0 ELSE Pause
             /\ pc' = IF stop THEN "selecting" ELSE "listing"
    /\ lead' = StartFetch(lead, idleMs)
    /\ UNCHANGED <<viewVars, site, extractVars, callVars, allPages, limit, delayMs, selected, i, outcome,
                   stderr, outFile, exitCode>>

\* variant: the failure discards what the earlier pages gave
ListingFetchFailsDropsAll ==
    /\ pc = "listing"
    /\ stderr' = Append(stderr, [about |-> "listing", ref |-> url,
                                 error |-> Rejection(url, listingTries + 1)])
    /\ listingTries' = listingTries + 1
    /\ results' = <<>>
    /\ nextUrl' = Undefined
    /\ pageNo' = 0
    /\ lead' = StartFetch(lead, idleMs)
    /\ idleMs' = 0
    /\ pc' = "selecting"
    /\ UNCHANGED <<viewVars, site, extractVars, callVars, allPages, limit, delayMs, url, selected, i,
                   outcome, outFile, exitCode>>

\* one pass of the while loop whose fetchHtml(url) rejects: log and break
ListingFetchFails ==
    /\ pc = "listing"
    /\ stderr' = Append(stderr, [about |-> "listing", ref |-> url,
                                 error |-> Rejection(url, listingTries + 1)])
    /\ listingTries' = listingTries + 1
    /\ nextUrl' = Undefined
    /\ pageNo' = 0
    /\ lead' = StartFetch(lead, idleMs)
    /\ idleMs' = 0
    /\ pc' = "selecting"
    /\ UNCHANGED <<viewVars, site, extractVars, callVars, allPages, limit, delayMs, url, results, selected, i,
                   outcome, outFile, exitCode>>

\* variant: the slice keeps the end of the accumulator
SelectionLast(all, acc) ==
    IF all THEN acc
    ELSE SubSeq(acc, Len(acc) - Min({Len(acc), TargetCount}) + 1, Len(acc))

\* allPages ? results : results.slice(0, targetCount)
Selection(all, acc) ==
    IF all THEN acc ELSE SubSeq(acc, 1, Min({Len(acc), TargetCount}))

Select ==
    /\ pc = "selecting"
    /\ selected' = Selection(allPages, results)
    /\ i' = 0
    /\ pc' = "enriching"
    /\ UNCHANGED <<viewVars, site, extractVars, callVars, paceVars, allPages, limit, delayMs, pageNo, url, nextUrl,
                   results, outcome, stderr, listingTries, outFile, exitCode>>

\* variant: the loop takes the records from the end
CallFetchGameDetailsBackwards ==
    /\ pc = "enriching"
    /\ i < Len(selected)
    /\ gameUrl' = selected[Len(selected) - i].url
    /\ attempts' = DefaultAttempts
    /\ attempt' = 1 /\ lastError' = Null /\ fetchLog' = <<>> /\ fgd' = Running
    /\ pc' = "details"
    /\ UNCHANGED <<viewVars, site, extractVars, crawlVars, paceVars>>

\* const details = await fetchGameDetails(game.url)
CallFetchGameDetails ==
    /\ pc = "enriching"
    /\ i < Len(selected)
    /\ gameUrl' = selected[i + 1].url
    /\ attempts' = DefaultAttempts
    /\ attempt' = 1 /\ lastError' = Null /\ fetchLog' = <<>> /\ fgd' = Running
    /\ pc' = "details"
    /\ UNCHANGED <<viewVars, site, extractVars, crawlVars, paceVars>>

\* variant: the details take the place of the record
AssignReplacing(game, details) == details

\* Object.assign(game, details): details' keys are set on the record
Assign(game, details) == details @@ game

\* the call returned: merge into the record, which results shares
MergeDetails ==
    /\ pc = "settled"
    /\ fgd.st = "returned"
    /\ selected' = [selected EXCEPT ![i + 1] = Assign(@, fgd.value)]
    /\ results' = [results EXCEPT ![i + 1] = Assign(@, fgd.value)]
    /\ outcome' = Append(outcome, "merged")
    /\ i' = i + 1
    /\ pc' = "enriching"
    /\ gameUrl' = Undefined /\ attempts' = DefaultAttempts /\ attempt' = 1
    /\ lastError' = Null /\ fetchLog' = <<>> /\ fgd' = Idle
    /\ given' = NoGiven /\ extracted' = Undefined
    /\ idleMs' = idleMs + Pause
    /\ UNCHANGED <<viewVars, site, allPages, limit, delayMs, pageNo, url, nextUrl, stderr, listingTries, outFile,
                   exitCode, lead>>

\* variant: the catch sits outside the loop, so a failure ends the batch
CatchDetailsAborts ==
    /\ pc = "settled"
    /\ fgd.st = "threw"
    /\ stderr' = Append(stderr, [about |-> "details", ref |-> selected[i + 1].title,
                                 error |-> fgd.error])
    /\ outcome' = Append(outcome, "failed")
    /\ i' = Len(selected)
    /\ pc' = "enriching"
    /\ gameUrl' = Undefined /\ attempts' = DefaultAttempts /\ attempt' = 1
    /\ lastError' = Null /\ fetchLog' = <<>> /\ fgd' = Idle
    /\ UNCHANGED <<viewVars, site, extractVars, paceVars, allPages, limit, delayMs, pageNo, url, nextUrl, results,
                   selected, listingTries, outFile, exitCode>>

\* the call threw: log, leave the record as it is
CatchDetails ==
    /\ pc = "settled"
    /\ fgd.st = "threw"
    /\ stderr' = Append(stderr, [about |-> "details", ref |-> selected[i + 1].title,
                                 error |-> fgd.error])
    /\ outcome' = Append(outcome, "failed")
    /\ i' = i + 1
    /\ pc' = "enriching"
    /\ gameUrl' = Undefined /\ attempts' = DefaultAttempts /\ attempt' = 1
    /\ lastError' = Null /\ fetchLog' = <<>> /\ fgd' = Idle
    /\ UNCHANGED <<viewVars, site, extractVars, paceVars, allPages, limit, delayMs, pageNo, url, nextUrl, results,
                   selected, listingTries, outFile, exitCode>>

\* return selected; main writes the file and the process ends
Finish ==
    /\ pc = "enriching"
    /\ i >= Len(selected)
    /\ outFile' = Arr(selected)
    /\ exitCode' = Num(0)
    /\ pc' = "exited"
    /\ UNCHANGED <<viewVars, site, extractVars, callVars, paceVars, allPages, limit, delayMs, pageNo, url, nextUrl,
                   results, selected, i, outcome, stderr, listingTries>>

Next ==
    \/ ListingFetchSucceeds
    \/ ListingFetchFails
    \/ Select
    \/ CallFetchGameDetails
    \/ ShortCircuit
    \/ DetailFetchSucceeds
    \/ DetailFetchFails
    \/ GiveUp
    \/ MergeDetails
    \/ CatchDetails
    \/ Finish

Spec == Init /\ [][Next]_vars

(* ----------------------- scrapeAll on a fixed site ---------------------- *)

InitSite ==
    /\ pc = "listing"
    /\ \/ allPages = TRUE /\ limit = DefaultLimit
       \/ allPages = FALSE /\ limit \in 1..MaxLimit
    /\ delayMs = DefaultDelay
    /\ url = START_URL /\ nextUrl = Undefined /\ pageNo = 1
    /\ results = <<>> /\ selected = <<>> /\ i = 0 /\ outcome = <<>>
    /\ stderr = <<>> /\ listingTries = 0
    /\ outFile = Undefined /\ exitCode = Undefined
    /\ site \in Sites
    /\ NoExtract /\ NoCall /\ NoPace /\ NoView

\* one pass of the while loop whose fetchHtml(url) resolves with the page the
\* site has at url
SiteFetchSucceeds ==
    /\ pc = "listing"
    /\ LET page == site[url]
           grown == AppendNewRanks(results, page.pageGames)
           stop == TargetReached(Len(grown)) \/ page.nextUrl = Null
       IN /\ results' = grown
          /\ nextUrl' = IF TargetReached(Len(grown)) THEN Undefined ELSE page.nextUrl
          /\ url' = IF stop THEN url ELSE page.nextUrl
          /\ listingTries' = IF stop THEN listingTries + 1 ELSE 0
          /\ pageNo' = IF stop THEN 0 ELSE NextPage(pageNo)
          /\ idleMs' = IF stop THEN 0 ELSE Pause
          /\ pc' = IF stop THEN "selecting" ELSE "listing"
    /\ lead' = StartFetch(lead, idleMs)
    /\ UNCHANGED <<viewVars, site, extractVars, callVars, allPages, limit, delayMs, selected, i,
                   outcome, stderr, outFile, exitCode>>

NextSite ==
    \/ SiteFetchSucceeds
    \/ ListingFetchFails
    \/ Select
    \/ CallFetchGameDetails
    \/ ShortCircuit
    \/ DetailFetchSucceeds
    \/ DetailFetchFails
    \/ GiveUp
    \/ MergeDetails
    \/ CatchDetails
    \/ Finish

\* every fetch answers and every continuation runs: the run does not halt
\* while a step is possible
SpecSite == InitSite /\ [][NextSite]_vars /\ WF_vars(NextSite)

(* ------------------------------ the viewer ------------------------------ *)

\* renderTableBody, renderSummary and updateSortIndicators after a change;
\* a table row is told by the rank in its first cell
Render(st) ==
    [tbody |-> [k \in 1..Len(st.filtered) |-> Field(st.filtered[k], "rank")], summary |-> renderSummary(st),
     sorted |-> [key |-> st.sortKey, dir |-> st.sortDir], error |-> Undefined]

\* a handler has changed the state into st: applyFilterAndSort
Refresh(st) ==
    /\ Changed(st) <= MaxChanged
    /\ state' = applyFilterAndSort(st)
    /\ dom' = Render(state')
    /\ UNCHANGED <<pc, site, extractVars, crawlVars, callVars, paceVars>>

InitViewer ==
    /\ pc = "loading"
    /\ NoView /\ NoSite
    /\ NoExtract /\ NoCrawl /\ NoCall /\ NoPace

\* load: boardgames.json arrives; the handlers are attached and read the
\* controls, which stand at their initial settings
Load ==
    /\ pc = "loading"
    /\ \E data \in ViewerData :
         LET st == [state EXCEPT !.games = IF IsArray(data) THEN data.a ELSE <<>>]
         IN /\ state' = applyFilterAndSort(st)
            /\ dom' = Render(state')
    /\ pc' = "viewing"
    /\ UNCHANGED <<site, extractVars, crawlVars, callVars, paceVars>>

\* load: the fetch fails, the response is not ok or not JSON
LoadFails ==
    /\ pc = "loading"
    /\ pc' = "failed"
    /\ dom' = [dom EXCEPT !.error = Str(<<"Failed to load data: ", "404">>)]
    /\ UNCHANGED <<state, site, extractVars, crawlVars, callVars, paceVars>>

\* the input handler of the search box; the event comes when the text changes
SearchInput ==
    /\ pc = "viewing"
    /\ \E q \in Controls.queries \ {state.query} : Refresh([state EXCEPT !.query = q])

\* the input and change handlers of a filter value box; the events come when
\* the text changes
FilterValueInput ==
    /\ pc = "viewing"
    /\ \E k \in 1..Len(RangeFilters) :
         \E text \in Controls.texts \ {state[RangeFilters[k].value]} :
           Refresh([state EXCEPT ![RangeFilters[k].value] = text])

\* the change handler of a filter operator; the event comes when the choice
\* changes
FilterOpChange ==
    /\ pc = "viewing"
    /\ \E k \in 1..Len(RangeFilters) :
         \E op \in Controls.ops \ {state[RangeFilters[k].op]} :
           Refresh([state EXCEPT ![RangeFilters[k].op] = op])

\* the click handler with a new key sorted descending, the title too
HeaderClickAlwaysDesc ==
    /\ pc = "viewing"
    /\ \E key \in Controls.keys :
         Refresh(IF state.sortKey = key
                   THEN [state EXCEPT !.sortDir = IF state.sortDir = "asc" THEN "desc" ELSE "asc"]
                   ELSE [state EXCEPT !.sortKey = key, !.sortDir = "desc"])

\* the click handler of a sortable column header
HeaderClick ==
    /\ pc = "viewing"
    /\ \E key \in Controls.keys :
         Refresh(IF state.sortKey = key
                   THEN [state EXCEPT !.sortDir = IF state.sortDir = "asc" THEN "desc" ELSE "asc"]
                   ELSE [state EXCEPT !.sortKey = key,
                                      !.sortDir = IF key = "title" THEN "asc" ELSE "desc"])

NextViewer ==
    \/ Load
    \/ LoadFails
    \/ SearchInput
    \/ FilterValueInput
    \/ FilterOpChange
    \/ HeaderClick

SpecViewer == InitViewer /\ [][NextViewer]_vars

(* -------------------------------- claims -------------------------------- *)

\* the first listing fetch was the one that failed
StartPageFailed ==
    \E k \in 1..Len(stderr) : stderr[k].about = "listing" /\ stderr[k].ref = START_URL

\* a listing fetch failed and ended the pagination
ListingGaveUp == \E k \in 1..Len(stderr) : stderr[k].about = "listing"

\* C1: after the listing crawl the accumulator holds one record per distinct
\* rank: no two records of results share a rank.
C1_OneRecordPerRank ==
    pc # "listing" =>
      \A a, b \in 1..Len(results) : results[a].rank = results[b].rank => a = b

\* the tally the code reads as "recommended": that of the first entry whose
\* label contains the word, which is the Not Recommended entry when that one
\* is listed first
RecAsRead(o) == IF o.order = "standard" THEN o.rec ELSE o.notrec

AlternateUsed == pc = "extracted" /\ given.primary.kind # "ok" /\ given.alternate.kind = "ok"

BestRangeIs(Qualifies(_)) ==
    LET poll == given.alternate.poll
        q == {poll[k].players : k \in {j \in 1..Len(poll) : Qualifies(poll[j])}}
    IN /\ extracted.min_best_players = IF q = {} THEN Null ELSE N(Min(q))
       /\ extracted.max_best_players = IF q = {} THEN Null ELSE N(Max(q))

ExamplePoll == <<PollOption(3, 5, 2, 0, "standard"), PollOption(4, 5, 5, 0, "standard")>>

\* C2 (as stated): in the alternate strategy an option is in the best range
\* only if its best tally is positive and strictly greater than both its
\* recommended and its not-recommended tally; the example poll gives 3..3.
C2_BestStrictlyGreatest ==
    AlternateUsed =>
      /\ BestRangeIs(LAMBDA o : o.best > 0 /\ o.best > o.rec /\ o.best > o.notrec)
      /\ given.alternate.poll = ExamplePoll =>
           extracted.min_best_players = N(3) /\ extracted.max_best_players = N(3)

\* C2 (amended): in the alternate strategy an option is in the best range
\* exactly if its best tally is positive and not below the tally read as
\* recommended nor the not-recommended tally, so a tie keeps the option; the
\* example poll gives 3..4.
C2_BestAtLeastOthers ==
    AlternateUsed =>
      /\ BestRangeIs(LAMBDA o : o.best > 0 /\ o.best >= RecAsRead(o) /\ o.best >= o.notrec)
      /\ given.alternate.poll = ExamplePoll =>
           extracted.min_best_players = N(3) /\ extracted.max_best_players = N(4)

C2_Witness ==
    /\ AlternateUsed
    /\ given.alternate.poll = ExamplePoll
    /\ extracted.min_best_players = N(3)
    /\ extracted.max_best_players = N(4)

\* C3: when the first listing page cannot be fetched the run ends with no
\* output file and a non-zero exit code.
C3_StartFailureIsFatal ==
    (pc = "exited" /\ StartPageFailed) => outFile = Undefined /\ exitCode # Num(0)

\* C4: the crawl gives up on a listing page only after DefaultAttempts
\* fetches of it have failed.
C4_ListingFetchRetried == ListingGaveUp => listingTries >= DefaultAttempts

\* C5: a record whose detail fetch fails on every attempt does not end the
\* batch: at the end every selected record has been processed, the merged
\* ones carry the detail fields, the whole selection is returned, and the
\* failure step changes no record.
C5_FailureDoesNotAbort ==
    /\ [](pc = "exited" =>
            /\ Len(outcome) = Len(selected)
            /\ \A k \in 1..Len(selected) :
                  outcome[k] = "merged" => DetailFields \subseteq DOMAIN selected[k]
            /\ selected = Selection(allPages, results)
            /\ outFile = Arr(selected))
    /\ [][outcome' = Append(outcome, "failed") =>
            selected' = selected /\ results' = results]_vars

C5_Witness ==
    /\ pc = "exited"
    /\ \E k, j \in 1..Len(selected) :
          /\ k < j
          /\ outcome[k] = "failed"
          /\ outcome[j] = "merged"
          /\ Truthy(selected[j].url)
          /\ selected[j].min_players = N(1)

\* C6: in the returned collection a record whose detail fetch failed on all
\* attempts has each of the seven detail fields set to null, and the run
\* ends successfully.
C6_FailedRecordAllNull ==
    pc = "exited" =>
      /\ exitCode = Num(0)
      /\ \A k \in 1..Len(selected) :
            outcome[k] = "failed" =>
              \A f \in DetailFields : f \in DOMAIN selected[k] /\ selected[k][f] = Null

\* C7: fetchGameDetails with a non-empty reference makes at most `attempts`
\* fetches; a success is the last fetch of the call and its extraction is
\* what is returned; it throws only after `attempts` failed fetches, and
\* then throws what the last of them rejected with.
C7_BoundedAttempts ==
    Truthy(gameUrl) =>
      /\ Len(fetchLog) <= attempts
      /\ \A k \in 1..(Len(fetchLog) - 1) : fetchLog[k].error # Null
      /\ fgd.st = "returned" =>
           /\ fetchLog[Len(fetchLog)].error = Null
           /\ fgd.value = IF given.primary.kind = "ok" THEN given.primary.vals
                         ELSE given.text.vals
      /\ fgd.st = "threw" =>
           /\ Len(fetchLog) = attempts
           /\ \A k \in 1..Len(fetchLog) : fetchLog[k].error # Null
           /\ attempts >= 1 => fgd.error = fetchLog[attempts].error

C7_Witness ==
    /\ fgd.st = "threw"
    /\ attempts = DefaultAttempts
    /\ Len(fetchLog) = DefaultAttempts
    /\ fgd.error = Rejection(gameUrl, DefaultAttempts)

\* C8: the sleep after the k-th failed attempt is min(2000, 250 * k) ms, so
\* the sleeps of one call never decrease and never exceed 2000 ms.
C8_BackoffSchedule ==
    \A k \in 1..Len(fetchLog) :
      fetchLog[k].error # Null =>
        /\ fetchLog[k].slept = IF 250 * k < 2000 THEN 250 * k ELSE 2000
        /\ fetchLog[k].slept <= 2000
        /\ k > 1 => fetchLog[k - 1].slept <= fetchLog[k].slept

C8_Witness ==
    \E k \in 1..Len(fetchLog) :
      /\ 250 * k > 2000
      /\ fetchLog[k].error # Null
      /\ fetchLog[k].slept = 2000

\* C9: for a record without a detail reference no fetch is made and the
\* seven detail fields are merged into it as null.
C9_NoReferenceNoFetch ==
    /\ (pc \in {"details", "settled"} /\ ~Truthy(gameUrl)) => fetchLog = <<>>
    /\ \A k \in 1..Len(outcome) :
          ~Truthy(selected[k].url) =>
            /\ outcome[k] = "merged"
            /\ \A f \in DetailFields : f \in DOMAIN selected[k] /\ selected[k][f] = Null

C9_Witness ==
    /\ pc = "exited"
    /\ \E k \in 1..Len(selected) :
          /\ selected[k].url = Null
          /\ outcome[k] = "merged"
          /\ selected[k].weight = Null

\* C10: when the primary payload is present and parses, every one of the
\* seven fields is what the primary payload states, missing where it states
\* nothing, whatever the alternate payload and the text state.
C10_PrimaryOnly ==
    (pc = "extracted" /\ given.primary.kind = "ok") =>
      \A f \in DetailFields : extracted[f] = given.primary.vals[f]

C10_Witness ==
    /\ pc = "extracted"
    /\ given.primary = [kind |-> "ok", vals |-> DescPartial(1)]
    /\ given.alternate.kind = "ok"
    /\ given.alternate.vals = DescFull(2)
    /\ given.text.vals = DescFull(3)
    /\ extracted.max_players = Null
    /\ extracted.weight = Null

\* a DetailAttributes value with at least one attribute that is not missing
HasData(d) == \E f \in DetailFields : d[f] # Null

\* C11: the result is that of the first strategy, in priority order, whose
\* source yields at least one attribute: a primary payload that parses but
\* states nothing does not become the result when the alternate payload or
\* the text states something.
C11_FirstWithData ==
    (pc = "extracted" /\ given \in PriorityGiven) =>
      extracted =
        IF given.primary.kind = "ok" /\ HasData(given.primary.vals)
        THEN given.primary.vals
        ELSE IF given.alternate.kind = "ok" /\ HasData(given.alternate.vals)
             THEN given.alternate.vals
             ELSE given.text.vals

\* C12: a strategy whose block is absent or does not parse is skipped: with
\* no usable primary block the result is what the alternate payload states,
\* with neither block usable it is what the text states, and all seven
\* fields are missing when the text states nothing; the result is always a
\* DetailAttributes value, never an error.
C12_UnusableBlockSkipped ==
    (pc = "extracted" /\ given \in PriorityGiven) =>
      /\ DOMAIN extracted = DetailFields
      /\ (given.primary.kind \in {"none", "bad"} /\ given.alternate.kind = "ok") =>
            extracted = given.alternate.vals
      /\ (given.primary.kind \in {"none", "bad"}
            /\ given.alternate.kind \in {"none", "bad"}) =>
            /\ extracted = given.text.vals
            /\ given.text.vals = AllMissing => \A f \in DetailFields : extracted[f] = Null

C12_Witness ==
    /\ pc = "extracted"
    /\ given.primary.kind = "bad"
    /\ given.alternate.kind = "ok"
    /\ given.alternate.vals = DescPartial(2)
    /\ given.text.vals = DescFull(3)
    /\ extracted.min_players = N(2)
    /\ extracted.max_players = Null

\* the raw value the only payload of the page holds under every key
RawUsed ==
    /\ pc = "extracted"
    /\ given.primary.kind = "raw" \/ given.alternate.kind = "raw"

RawValue ==
    IF given.primary.kind = "raw" THEN given.primary.raw ELSE given.alternate.raw

\* C13: a field is missing, never 0, when its source value is absent, empty
\* text, whitespace or text that is no number; a field is 0 only when its
\* source value is a numeric zero.
C13_MissingNeverZero ==
    RawUsed =>
      \A f \in DetailFields :
        /\ RawValue \in {Null, Str(<<>>), Str(<<" ">>), Str(<<"a">>)} => extracted[f] = Null
        /\ extracted[f] = Num(0) => RawValue \in {Num(0), Str(<<"0">>)}

\* the run is past the listing loop
Listed == pc \in {"selecting", "enriching", "details", "settled", "exited"}

\* the run is past the selection
Chosen == pc \in {"enriching", "details", "settled", "exited"}

\* C14: outside all-pages mode the returned collection is the first
\* min(limit, accumulated) records of the accumulator, so never longer than
\* the limit; in all-pages mode it is the whole accumulator; the
\* accumulator only grows at its end, so the records keep the order in
\* which the listing gave them.
C14_SelectionIsPrefix ==
    /\ [](Chosen =>
            /\ allPages => selected = results
            /\ ~allPages =>
                  /\ Len(selected) = Min({limit, Len(results)})
                  /\ Len(selected) <= limit
                  /\ \A k \in 1..Len(selected) : selected[k] = results[k])
    /\ [](pc = "exited" => outFile = Arr(selected))
    /\ [][/\ Len(results') >= Len(results)
           /\ \A k \in 1..Len(results) :
                 /\ results'[k].rank = results[k].rank
                 /\ results'[k].title = results[k].title]_vars

C14_Witness ==
    /\ pc = "exited"
    /\ ~allPages
    /\ Len(results) > limit
    /\ Len(selected) = limit
    /\ selected[1].rank = results[1].rank

\* C15: a crawl in all-pages mode over a listing of two or more pages, the
\* last one without a next link, returns no two records of the same rank;
\* the pagination goes on while the page has a next link and the limit is
\* not reached (all-pages mode: while the page has a next link), and ends at
\* the first page for which this fails.
C15_TwoPagesNoDuplicates ==
    /\ (pc = "exited" /\ ~ListingGaveUp /\ allPages /\ url # START_URL) =>
          /\ nextUrl = Null
          /\ \A a, b \in 1..Len(outFile.a) :
                outFile.a[a].rank = outFile.a[b].rank => a = b
    /\ (Listed /\ ~ListingGaveUp) =>
          \/ nextUrl = Null
          \/ ~allPages /\ Len(results) >= limit
    /\ (pc = "listing" /\ url # START_URL) =>
          /\ Truthy(nextUrl)
          /\ allPages \/ Len(results) < limit

\* C16: the failure of a listing fetch other than the first ends the
\* pagination and leaves the accumulator as it is; no record leaves the
\* accumulator afterwards, and the run ends with exit code 0 and an output
\* holding the accumulated records, cut to the limit outside all-pages mode.
C16_LaterFailureKeepsRecords ==
    /\ [][(pc = "listing" /\ Len(stderr') > Len(stderr)) =>
            results' = results /\ pc' = "selecting"]_vars
    /\ [][Listed => Len(results') = Len(results)]_vars
    /\ []((pc = "exited" /\ ListingGaveUp /\ ~StartPageFailed) =>
            /\ exitCode = Num(0)
            /\ outFile.t = "array"
            /\ Len(outFile.a) = IF allPages THEN Len(results)
                                ELSE Min({limit, Len(results)})
            /\ \A k \in 1..Len(outFile.a) :
                  /\ outFile.a[k].rank = results[k].rank
                  /\ outFile.a[k].title = results[k].title)

C16_Witness ==
    /\ pc = "exited"
    /\ ListingGaveUp
    /\ ~StartPageFailed
    /\ url # START_URL
    /\ Len(outFile.a) >= 1
    /\ outFile.a[1].rank = N(1)

\* C17: every fetch after the first of a run starts only after some sleep
\* since the fetch before it settled.
C17_DelayBetweenFetches == lead.st = "after" => lead.ms > 0

\* the eight fields of a listing record
ListingFields ==
    {"rank", "title", "year", "image", "url", "geek_rating", "avg_rating", "num_voters"}

\* C19: every record of the output carries the eight listing fields and the
\* seven detail fields, whatever became of its enrichment.
C19_SameFieldNames ==
    pc = "exited" =>
      \A k \in 1..Len(outFile.a) :
        DOMAIN outFile.a[k] = ListingFields \cup DetailFields

\* the text under normalization without its separators and whitespace
Cleaned == SelectSeq(given.s, LAMBDA c : c \notin {",", " "})

\* c is a decimal numeral: an optional sign, then digits with at most one
\* decimal point among them
Numeral(c) ==
    LET body == IF c # <<>> /\ c[1] = "-" THEN Tail(c) ELSE c
    IN /\ \A k \in 1..Len(body) : body[k] \in {"0", "1", "2", "3", "4", "."}
       /\ \E k \in 1..Len(body) : body[k] # "."
       /\ \A k, j \in 1..Len(body) : (body[k] = "." /\ body[j] = ".") => k = j

\* C20: normalizeNumber returns a number or the missing marker and nothing
\* else; it returns missing for a text made only of separators, whitespace,
\* dashes and en-dashes and for a text that is no numeral; it returns 1234
\* for "1,234"; it returns 0 only for a numeral whose digits are all 0.
C20_NormalizeNumber ==
    pc = "normalized" =>
      /\ extracted = Null \/ extracted.t = "number"
      /\ given.t # "string" => extracted = Null
      /\ given.t = "string" =>
            /\ (\A k \in 1..Len(given.s) : given.s[k] \in {",", " ", "-", EnDash}) =>
                  extracted = Null
            /\ ~Numeral(Cleaned) => extracted = Null
            /\ Numeral(Cleaned) => extracted # Null
            /\ given.s = <<"1", ",", "2", "3", "4">> => extracted = N(1234)
            /\ extracted = Num(0) =>
                  /\ Numeral(Cleaned)
                  /\ \A k \in 1..Len(Cleaned) : Cleaned[k] \in {"-", "0", "."}

C20_Witness ==
    /\ pc = "normalized"
    /\ given = Str(<<"1", ",", "2", "3", "4">>)
    /\ extracted = N(1234)

\* range filter k has a value that reads as a number: it is applied
FilterActive(st, k) ==
    st[RangeFilters[k].value] # Str(<<>>) /\ Threshold(st, RangeFilters[k]) # NaN

\* C18: in the viewer, while a range filter (at-least or at-most) is applied
\* to one of the seven filterable fields, no record kept in state.filtered
\* has a missing value (null or absent) for that field.
C18_MissingNeverKept ==
    pc = "viewing" =>
      \A k \in 1..Len(RangeFilters) :
        FilterActive(state, k) =>
          \A r \in 1..Len(state.filtered) :
            Field(state.filtered[r], RangeFilters[k].key) \notin {Null, Undefined}

\* C21: on a fixed listing site with finitely many pages, every run in which
\* each fetch is answered eventually reaches the terminal state: scrapeAll
\* returns and the process exits.
C21_RunTerminates == <>(pc = "exited")

\* the phase of the run: crawling-listing, selecting, enriching, done
Phase ==
    CASE pc = "listing" -> 1
      [] pc = "selecting" -> 2
      [] pc \in {"enriching", "details", "settled"} -> 3
      [] OTHER -> 4

\* this step starts a fetch of a detail page
DetailFetchIssued == Len(fetchLog') > Len(fetchLog)

\* this step starts a fetch of a listing page
ListingFetchIssued == listingTries' # listingTries \/ pageNo' # pageNo

\* one step of a run that keeps the order of the phases and of the fetches
InOrderStep ==
    /\ pc' # pc =>
          \/ (pc' \in {"listing", "selecting"} /\ pc = "listing")
          \/ (pc' = "enriching" /\ pc \in {"selecting", "settled"})
          \/ (pc' = "details" /\ pc = "enriching")
          \/ (pc' = "settled" /\ pc = "details")
          \/ (pc' = "exited" /\ pc = "enriching" /\ i = Len(selected))
    /\ i' \in {i, i + 1}
    /\ ListingFetchIssued =>
          pc = "listing" /\ i = 0 /\ outcome = <<>> /\ fetchLog = <<>>
    /\ DetailFetchIssued =>
          /\ pc = "details"
          /\ ~ListingFetchIssued
          /\ i < Len(selected)
          /\ i + 1 <= Len(Selection(allPages, results))
          /\ gameUrl = selected[i + 1].url

\* C22: the run goes through listing, selecting, enriching, done in this
\* order; a listing fetch is issued only before any detail fetch, a detail
\* fetch only after the listing loop and the selection; the detail fetches
\* follow the order of the selected collection, each for the record at the
\* loop index, which lies inside the selection: no record cut off by the
\* selection is fetched.
C22_PhasesInOrder ==
    /\ [](Phase >= 3 => /\ selected = Selection(allPages, results)
                         /\ i <= Len(selected)
                         /\ Len(outcome) = i)
    /\ [][InOrderStep]_vars

\* a run that cut a record off, fetched the detail page of the one it kept
\* and ended
C22_Witness ==
    /\ pc = "exited"
    /\ Len(selected) < Len(results)
    /\ outcome = <<"merged">>
    /\ Truthy(selected[1].url)
    /\ lead.st = "after"

\* record after of the collection is record before, untouched or with
\* DetailAttributes fields added to it
OnlyDetailsAdded(before, after) ==
    /\ DOMAIN before \subseteq DOMAIN after
    /\ DOMAIN after \ DOMAIN before \subseteq DetailFields
    /\ \A f \in DOMAIN before : after[f] = before[f]

\* one step of the enrichment as the claim describes it
EnrichmentStep ==
    Phase >= 3 =>
      /\ Len(selected') = Len(selected)
      /\ Len(results') = Len(results)
      /\ \A k \in 1..Len(selected) :
            /\ OnlyDetailsAdded(selected[k], selected'[k])
            /\ selected'[k] # selected[k] =>
                  /\ k = i + 1 /\ i' = i + 1
                  /\ DOMAIN selected[k] = ListingFields
                  /\ DOMAIN selected'[k] = ListingFields \cup DetailFields
      /\ \A k \in 1..Len(results) :
            /\ OnlyDetailsAdded(results[k], results'[k])
            /\ k > Len(selected) => results'[k] = results[k]

\* C23: enrichment changes a selected record at most once, in the pass of
\* the loop that is at the record, and then only adds the seven
\* DetailAttributes fields: the eight listing fields keep their values, no
\* field is removed, and the number and order of the records stay.
C23_EnrichmentOnlyAdds == [][EnrichmentStep]_vars

\* a run that merged the details of its first record and left the second,
\* whose fetches failed, as it was
C23_Witness ==
    /\ pc = "exited"
    /\ outcome = <<"merged", "failed">>
    /\ DOMAIN selected[1] = ListingFields \cup DetailFields
    /\ selected[1].weight # Null
    /\ DOMAIN selected[2] = ListingFields

\* the ranges of polls.userplayers.best on the page under extraction
BestRanges == given.primary.ranges

\* the mins, and the maxes, that the ranges state
StatedMins == {BestRanges[k].min : k \in 1..Len(BestRanges)} \ {Null}
StatedMaxes == {BestRanges[k].max : k \in 1..Len(BestRanges)} \ {Null}

\* C24: in the primary-payload strategy min_best_players is the least of
\* the range mins and max_best_players the greatest of the range maxes over
\* all ranges of the poll; when the poll has no range, or no range has a
\* min, or no range has a max, both are missing.
C24_BestRangeSpansAll ==
    (pc = "extracted" /\ given.primary.kind = "ranges") =>
      IF StatedMins = {} \/ StatedMaxes = {}
        THEN extracted.min_best_players = Null /\ extracted.max_best_players = Null
        ELSE /\ extracted.min_best_players \in StatedMins
             /\ \A v \in StatedMins : extracted.min_best_players.m <= v.m
             /\ extracted.max_best_players \in StatedMaxes
             /\ \A v \in StatedMaxes : extracted.max_best_players.m >= v.m

\* two ranges, 4 to 5 and 2 to 3, give 2 to 5: wider than either
C24_Witness ==
    /\ pc = "extracted"
    /\ given.primary.kind = "ranges"
    /\ BestRanges = <<[min |-> N(4), max |-> N(5)], [min |-> N(2), max |-> N(3)]>>
    /\ extracted.min_best_players = N(2)
    /\ extracted.max_best_players = N(5)

\* the rows of the table under extraction that have at least 6 cells and a
\* rank that reads as a number
RowsWithRank ==
    SelectSeq(given.rows, LAMBDA row :
      row.tds >= 6 /\ normalizeNumber(IF Truthy(row.rankSort) THEN row.rankSort
                                      ELSE row.rankText) # Null)

\* C25: extractGamesFromHtml yields one record, in row order, for each row
\* with at least 6 cells and a parseable rank and none for any other row,
\* and the rank of every record is a positive integer.
C25_OneRecordPerRankedRow ==
    pc = "games" =>
      /\ Len(extracted.a) = Len(RowsWithRank)
      /\ \A k \in 1..Len(extracted.a) :
            /\ extracted.a[k].rank =
                  normalizeNumber(IF Truthy(RowsWithRank[k].rankSort)
                                    THEN RowsWithRank[k].rankSort
                                    ELSE RowsWithRank[k].rankText)
            /\ extracted.a[k].rank.t = "number"
            /\ extracted.a[k].rank.m > 0
            /\ extracted.a[k].rank.m % Scale = 0

\* C26: roundTo(value, d) is missing for a missing value; for a number it is
\* the value rounded at d decimals with a half going away from zero, for
\* negative values too: its size is the size of the value plus half a step,
\* cut to whole steps.
C26_HalfAwayFromZero ==
    pc = "rounded" =>
      IF given.value \in {Undefined, Null} THEN extracted = Null
      ELSE LET step == Scale \div (10 ^ given.decimals)
               size == IF given.value.m < 0 THEN -given.value.m ELSE given.value.m
               rounded == ((2 * size + step) \div (2 * step)) * step
           IN extracted = Num(IF given.value.m < 0 THEN -rounded ELSE rounded)

\* C27: after any sequence of viewer events state.filtered holds exactly the
\* records of state.games that match the text query and every active range
\* filter, each at most once, and state.games is what was loaded; a record
\* matches a range filter when the number in its field is on the stated side
\* of the threshold.
C27_FilteredIsTheMatches ==
    pc = "viewing" =>
      LET meets(k, g) ==
            LET v == Field(g, RangeFilters[k].key)
                t == Threshold(state, RangeFilters[k])
            IN /\ v.t = "number"
               /\ IF state[RangeFilters[k].op] = "lte" THEN v.m <= t.m ELSE v.m >= t.m
          matches(g) == /\ MatchesQuery(state, g)
                        /\ \A k \in 1..Len(RangeFilters) :
                              FilterActive(state, k) => meets(k, g)
      IN /\ {state.filtered[r] : r \in 1..Len(state.filtered)}
              = {state.games[r] : r \in {n \in 1..Len(state.games) : matches(state.games[n])}}
         /\ \A r, q \in 1..Len(state.filtered) :
              r # q => state.filtered[r] # state.filtered[q]
         /\ state.games \in {<<>>} \cup {data.a : data \in {d \in ViewerData : IsArray(d)}}

\* a step of the sort state machine as the headers drive it: the key kept
\* and the direction flipped, or a new key with asc for the title and desc
\* for any other; a click always is such a step and nothing else moves the sort
SortStep ==
    LET moved == <<state.sortKey, state.sortDir>>' # <<state.sortKey, state.sortDir>>
    IN /\ HeaderClick => moved
       /\ moved =>
            /\ HeaderClick
            /\ \/ /\ state'.sortKey = state.sortKey
                  /\ state'.sortDir = (IF state.sortDir = "asc" THEN "desc" ELSE "asc")
               \/ /\ state'.sortKey # state.sortKey
                  /\ state'.sortDir = (IF state'.sortKey = "title" THEN "asc" ELSE "desc")

\* C28: the sort starts at (rank, asc); a click on the header of the current
\* key flips the direction and keeps the key, a click on another header takes
\* its key with asc for title and desc otherwise; the direction is always asc
\* or desc, so two clicks on the current header restore the pair.
C28_SortStateMachine ==
    /\ [](/\ state.sortDir \in {"asc", "desc"}
          /\ pc = "loading" => state.sortKey = "rank" /\ state.sortDir = "asc")
    /\ [][SortStep]_vars

\* the title header clicked twice: sorted by title, descending
C28_Witness ==
    /\ pc = "viewing"
    /\ state.sortKey = "title"
    /\ state.sortDir = "desc"
    /\ Len(state.filtered) > 1

\* C29: after every viewer event state.filtered is ordered by a numeric sort
\* key: rows with a value are non-decreasing when asc and non-increasing when
\* desc, rows without a value are together at one end, and rows that
\* compare equal keep their order of state.games.
C29_SortedByKey ==
    (pc = "viewing" /\ state.sortKey \in numberKeys) =>
      LET rows == state.filtered
          has(r) == Field(rows[r], state.sortKey) \notin {Null, Undefined}
          val(r) == Field(rows[r], state.sortKey).m
          place(r) == CHOOSE k \in 1..Len(state.games) : state.games[k] = rows[r]
      IN \A a, b \in 1..Len(rows) :
           a < b =>
             /\ (has(a) /\ has(b)) =>
                  IF state.sortDir = "asc" THEN val(a) <= val(b) ELSE val(a) >= val(b)
             /\ \A c \in 1..Len(rows) : (b < c /\ has(a) = has(c)) => has(b) = has(a)
             /\ ((~has(a) /\ ~has(b)) \/ (has(a) /\ has(b) /\ val(a) = val(b))) =>
                  place(a) < place(b)

\* by weight, descending: 3, 0, then the two records without a weight in
\* their order of the file
C29_Witness ==
    /\ pc = "viewing"
    /\ state.sortKey = "weight"
    /\ state.sortDir = "desc"
    /\ dom.tbody = <<N(1), N(4), N(2), N(3)>>

\* C30: a range filter is active exactly when its value text is non-empty
\* and numeric: then it keeps the rows on the stated side of the value, as
\* at-least when the operator is 'all', which is the sign renderSummary
\* shows; a value that is no number leaves the rows as they are without the
\* filter.
C30_ActiveWhenNumeric ==
    pc = "viewing" =>
      \A k \in 1..Len(RangeFilters) :
        LET filter == RangeFilters[k]
            text == state[filter.value].s
            numeric == (\E n \in 1..Len(text) : IsDigit(text[n]))
                         /\ Threshold(state, filter) # NaN
            without == applyFilterAndSort([state EXCEPT ![filter.value] = Str(<<>>)]).filtered
            atMost == state[filter.op] = "lte"
            onSide(g) == LET v == NumberOf(Field(g, filter.key))
                             t == Threshold(state, filter)
                         IN v # NaN /\ IF atMost THEN v.m <= t.m ELSE v.m >= t.m
        IN IF numeric
             THEN /\ state.filtered = SelectSeq(without, onSide)
                  /\ \E n \in 1..Len(dom.summary.parts) :
                        /\ dom.summary.parts[n].label = filter.label
                        /\ dom.summary.parts[n].sign = (IF atMost THEN "<=" ELSE ">=")
             ELSE state.filtered = without

====
